---- MODULE Spec2Model ----
(***************************************************************************)
(* Stream server of the multi-camera ingest pipeline: main() of the        *)
(* stream server (bootstrap, frame-set synchronizer, shutdown), the        *)
(* per-camera ingest workers it spawns (stream_mgr) and the lock-free      *)
(* queues that carry frame buffers between them.                           *)
(*                                                                         *)
(* main() is translated from the source.  stream_mgr, lf_queue_* and       *)
(* broadcast_msg are only called from the source at hand; they are         *)
(* modelled from their documented contract (sections 4.A, 4.C, 4.D).       *)
(***************************************************************************)
EXTENDS Integers, Sequences, FiniteSets, TLC

(* ------------------------------ bounds --------------------------------- *)

\* largest camera count count_cameras() reports in the model
MaxCams == 2

\* frame buffers per camera (FRAME_BUFS_PER_THREAD, 32 in the source), scaled
FRAME_BUFS_PER_THREAD == 2

\* number of complete sets the synchronizer counts to (100 in the source), scaled
TARGET_SETS == 2

\* grid ticks a camera can stamp frames with: capture timestamps 1..MaxTick
MaxTick == 2

\* frames a camera sends in one run
MaxFrames == 2

\* values the producer of the queue harness offers
MaxItems == 4

\* grid ticks of a run in which every camera sends one frame per tick
GridTicks == 5

\* largest number of ticks a camera's first frame lags the grid's first tick
GridSkew == 1

(* ----------------------------- constants ------------------------------- *)

NULL == -1

\* errno values the failing library calls can leave behind
Errnos == {1, 12}

CamIds == 0 .. (MaxCams - 1)

VARIABLES
  pc,              \* position of main()
  ret,             \* value main() returns
  cam_count,       \* count_cameras() result
  frame_queues,    \* frame_queues[i*2] filled queue, frame_queues[i*2+1] empty queue of camera i
  timestamp,       \* ts_frame_bufs[h].timestamp
  mi, mj,          \* loop indices of main()
  current_frames,  \* synchronizer slots
  complete_sets,
  full_set,
  max_timestamp,
  all_equal,
  pool_freed,      \* free(frame_bufs) has run
  anchor_sent,     \* the start anchor broadcast has run
  anchor_reached,  \* cameras the start anchor reached
  stop_sent,       \* the STOP broadcast has run
  stop_reached,    \* cameras the STOP message reached
  wpc,             \* position of worker i (stream_mgr)
  wbuf,            \* buffer worker i holds
  wts,             \* capture timestamp of the frame worker i is handling
  wlast,           \* last capture timestamp camera i sent
  nrecv,           \* frames camera i has sent
  published,       \* history: timestamps worker i enqueued to its filled queue
  accepted,        \* history: timestamps of the frames worker i received, less those it failed to decode
  emitted,         \* history: timestamps of the complete sets logged
  recycled,        \* history: timestamps of frames the synchronizer dropped on mismatch
  nq_by, dq_by,    \* history: threads that enqueued to / dequeued from each queue
  prime_ok,        \* history: every priming enqueue so far returned true
  q_slots, q_head, q_tail,   \* one queue taken alone: its slots and its two indices
  p_pc, p_val, p_next,       \* its enqueuing thread: position, value in hand, next value
  c_pc, c_val,               \* its dequeuing thread: position, value read
  q_enq, q_deq,              \* history: values enqueued / dequeued with success
  nq_false_at, nq_true_at,   \* history: elements held when enqueue returned false / true
  dq_none_at, dq_some_at     \* history: elements held when dequeue returned nothing / a value

vars == << pc, ret, cam_count, frame_queues, timestamp, mi, mj, current_frames,
           complete_sets, full_set, max_timestamp, all_equal, pool_freed,
           anchor_sent, anchor_reached, stop_sent, stop_reached,
           wpc, wbuf, wts, wlast, nrecv, accepted,
           published, emitted, recycled, nq_by, dq_by, prime_ok,
           q_slots, q_head, q_tail, p_pc, p_val, p_next, c_pc, c_val,
           q_enq, q_deq, nq_false_at, nq_true_at, dq_none_at, dq_some_at >>

queueVars == << q_slots, q_head, q_tail, p_pc, p_val, p_next, c_pc, c_val,
                q_enq, q_deq, nq_false_at, nq_true_at, dq_none_at, dq_some_at >>

workerVars == << wpc, wbuf, wts, wlast, nrecv, published, accepted >>

mainState == << pc, ret, cam_count, mi, mj, current_frames, complete_sets, full_set,
                max_timestamp, all_equal, pool_freed, anchor_sent, anchor_reached,
                stop_sent, stop_reached, emitted, recycled, prime_ok >>

(* ------------------------- lock-free queue ----------------------------- *)
\* Contract of lockfree_containers (section 4.A): a bounded FIFO of handles.

\* init(slots, K): the queue begins empty
lf_queue_init == << >>

\* enqueue(h) -> bool: false iff the queue holds `cap` elements
lf_queue_nq_ok(q, cap) == Len(q) < cap

lf_queue_nq(q, cap, h) == IF lf_queue_nq_ok(q, cap) THEN Append(q, h) ELSE q

\* dequeue() -> handle or NULL when empty
lf_queue_dq_val(q) == IF q = << >> THEN NULL ELSE Head(q)

lf_queue_dq(q) == IF q = << >> THEN q ELSE Tail(q)

(* ----------------------------- helpers --------------------------------- *)

Cams == 0 .. (cam_count - 1)

QueueIds == 0 .. (2 * MaxCams - 1)

Handles == 0 .. (MaxCams * FRAME_BUFS_PER_THREAD - 1)

FilledQ(i) == i * 2

EmptyQ(i) == i * 2 + 1

MainThread == << "main", 0 >>

WorkerThread(i) == << "stream_mgr", i >>

\* max over the slots, as the loop at lines 183-187 computes it
RECURSIVE MaxTimestamp(_, _)
MaxTimestamp(i, acc) ==
  IF i >= cam_count THEN acc
  ELSE MaxTimestamp(i + 1,
         IF timestamp[current_frames[i]] > acc THEN timestamp[current_frames[i]] ELSE acc)

\* variant: the max loop starts at slot 1
FindMaxTimestamp_SkipsSlot0 == MaxTimestamp(1, 0)

\* lines 183-187: the max loop starts at slot 0 with max_timestamp = 0
FindMaxTimestamp == MaxTimestamp(0, 0)

\* variant: > in place of !=
TimestampDiffers_Greater(h, m) == timestamp[h] > m

\* line 192: the test that sends a slot back
TimestampDiffers(h, m) == timestamp[h] # m

\* variant: buffers dropped on a mismatch go back to the filled queue
RecycleQueue_Filled(i) == i * 2

\* variant: the buffer goes back to the filled queue, index i*2
ReleaseQueue_Filled(i) == i * 2

\* variants: the slot keeps its pointer
SlotAfterRecycle_Kept(cur, i) == cur

SlotAfterRelease_Kept(cur, i) == cur

\* lines 194 and 213: the queue a buffer of camera i is returned to
RecycleQueue(i) == i * 2 + 1

ReleaseQueue(i) == i * 2 + 1

\* lines 195 and 214: the slot after its buffer was returned
SlotAfterRecycle(cur, i) == [cur EXCEPT ![i] = NULL]

SlotAfterRelease(cur, i) == [cur EXCEPT ![i] = NULL]

\* variant: one node of the region is taken by the dummy
InitCapacity_OneLess == FRAME_BUFS_PER_THREAD - 1

\* lines 111-121: capacity handed to lf_queue_init
InitCapacity == FRAME_BUFS_PER_THREAD

\* line 123: passes of the priming loop
PrimeCount == FRAME_BUFS_PER_THREAD

\* line 126: the buffer enqueued by pass j
PrimeHandle(offset, j) == offset + j

\* variant: the loop test is off by one and admits one more set
LoopTop_OneMore(sets) == IF sets <= TARGET_SETS THEN "fill" ELSE "stop"

\* head of the while loop at line 164
LoopTop(sets) == IF sets < TARGET_SETS THEN "fill" ELSE "stop"

\* variant: the join loop is left out and the pool is freed right after STOP
AfterStop_NoJoin == "free"

\* lines 220-223: the join loop follows the STOP broadcast
AfterStop == "join"

\* line 109: offset of camera i's region in both node partitions
PartitionOffset(i) == i * FRAME_BUFS_PER_THREAD

(* ------------------------------- Init ---------------------------------- *)

\* everything but the cameras' first capture tick
InitCommon ==
  /\ pc = "start"
  /\ ret = 0
  /\ cam_count = 0
  /\ frame_queues = [q \in QueueIds |-> << >>]
  /\ timestamp = [h \in Handles |-> 0]
  /\ mi = 0
  /\ mj = 0
  /\ current_frames = [i \in CamIds |-> NULL]
  /\ complete_sets = 0
  /\ full_set = TRUE
  /\ max_timestamp = 0
  /\ all_equal = TRUE
  /\ pool_freed = FALSE
  /\ anchor_sent = FALSE
  /\ anchor_reached = {}
  /\ stop_sent = FALSE
  /\ stop_reached = {}
  /\ wpc = [i \in CamIds |-> "idle"]
  /\ wbuf = [i \in CamIds |-> NULL]
  /\ wts = [i \in CamIds |-> 0]
  /\ nrecv = [i \in CamIds |-> 0]
  /\ published = [i \in CamIds |-> << >>]
  /\ accepted = [i \in CamIds |-> << >>]
  /\ emitted = << >>
  /\ recycled = [i \in CamIds |-> << >>]
  /\ nq_by = [q \in QueueIds |-> {}]
  /\ dq_by = [q \in QueueIds |-> {}]
  /\ prime_ok = TRUE
  /\ q_slots = [k \in 0 .. (InitCapacity - 1) |-> NULL]
  /\ q_head = 0
  /\ q_tail = 0
  /\ p_pc = "idle"
  /\ p_val = NULL
  /\ p_next = 1
  /\ c_pc = "idle"
  /\ c_val = NULL
  /\ q_enq = << >>
  /\ q_deq = << >>
  /\ nq_false_at = {}
  /\ nq_true_at = {}
  /\ dq_none_at = {}
  /\ dq_some_at = {}

\* cameras stamp their frames from tick 1 on
Init ==
  /\ InitCommon
  /\ wlast = [i \in CamIds |-> 1]

\* cameras on one grid: the first frame of each carries tick 1 or lags it by
\* at most GridSkew ticks
InitGrid ==
  /\ InitCommon
  /\ wlast \in [CamIds -> 1 .. (1 + GridSkew)]

(* ------------------------------ main() --------------------------------- *)

\* lines 26-103: logging, camera count, configuration, affinity, allocation
StartupFail ==
  /\ pc = "start"
  /\ \E e \in Errnos :
       \/ ret' = -e                      \* setup_logging, sched_setaffinity, malloc
       \/ ret' = e                       \* parse_conf returns its own code
  /\ pc' = "exited"
  /\ UNCHANGED << cam_count, frame_queues, timestamp, mi, mj, current_frames,
                  complete_sets, full_set, max_timestamp, all_equal, pool_freed,
                  anchor_sent, anchor_reached, stop_sent, stop_reached,
                  emitted, recycled, nq_by, dq_by, prime_ok >>
  /\ UNCHANGED workerVars
  /\ UNCHANGED queueVars

\* lines 36-47: count_cameras() <= 0 is returned as it is
CountFail ==
  /\ pc = "start"
  /\ \E c \in {0} \cup {-e : e \in Errnos} :
       /\ cam_count' = c
       /\ ret' = c
  /\ pc' = "exited"
  /\ UNCHANGED << frame_queues, timestamp, mi, mj, current_frames,
                  complete_sets, full_set, max_timestamp, all_equal, pool_freed,
                  anchor_sent, anchor_reached, stop_sent, stop_reached,
                  emitted, recycled, nq_by, dq_by, prime_ok >>
  /\ UNCHANGED workerVars
  /\ UNCHANGED queueVars

StartupOk ==
  /\ pc = "start"
  /\ \E c \in 1 .. MaxCams : cam_count' = c
  /\ pc' = "prime"
  /\ mi' = 0
  /\ mj' = 0
  /\ UNCHANGED << ret, frame_queues, timestamp, current_frames,
                  complete_sets, full_set, max_timestamp, all_equal, pool_freed,
                  anchor_sent, anchor_reached, stop_sent, stop_reached,
                  emitted, recycled, nq_by, dq_by, prime_ok >>
  /\ UNCHANGED workerVars
  /\ UNCHANGED queueVars

\* lines 108-129: one pass of the inner loop; the two lf_queue_init calls
\* of camera mi run with its first pass
Prime ==
  /\ pc = "prime"
  /\ LET offset == PartitionOffset(mi)
         fq == IF mj = 0 THEN lf_queue_init ELSE frame_queues[FilledQ(mi)]
         eq == IF mj = 0 THEN lf_queue_init ELSE frame_queues[EmptyQ(mi)]
         lastj == (mj + 1 >= PrimeCount)
         lasti == (mi + 1 >= cam_count)
     IN  /\ frame_queues' = [frame_queues EXCEPT
                               ![FilledQ(mi)] = fq,
                               ![EmptyQ(mi)] = lf_queue_nq(eq, InitCapacity, PrimeHandle(offset, mj))]
         /\ prime_ok' = (prime_ok /\ lf_queue_nq_ok(eq, InitCapacity))
         /\ nq_by' = [nq_by EXCEPT ![EmptyQ(mi)] = @ \cup {MainThread}]
         /\ mj' = IF lastj THEN 0 ELSE mj + 1
         /\ mi' = IF lastj THEN (IF lasti THEN 0 ELSE mi + 1) ELSE mi
         /\ pc' = IF lastj /\ lasti THEN "spawn" ELSE "prime"
  /\ UNCHANGED << ret, cam_count, timestamp, current_frames,
                  complete_sets, full_set, max_timestamp, all_equal, pool_freed,
                  anchor_sent, anchor_reached, stop_sent, stop_reached,
                  emitted, recycled, dq_by >>
  /\ UNCHANGED workerVars
  /\ UNCHANGED queueVars

\* lines 133-145: pthread_create succeeds for camera mi
SpawnOk ==
  /\ pc = "spawn"
  /\ wpc' = [wpc EXCEPT ![mi] = "recv"]
  /\ ret' = 0
  /\ mi' = IF mi + 1 >= cam_count THEN 0 ELSE mi + 1
  /\ pc' = IF mi + 1 >= cam_count THEN "anchor" ELSE "spawn"
  /\ UNCHANGED << cam_count, frame_queues, timestamp, mj, current_frames,
                  complete_sets, full_set, max_timestamp, all_equal, pool_freed,
                  anchor_sent, anchor_reached, stop_sent, stop_reached,
                  emitted, recycled, nq_by, dq_by, prime_ok >>
  /\ UNCHANGED << wbuf, wts, wlast, nrecv, published, accepted >>
  /\ UNCHANGED queueVars

\* lines 146-151: pthread_create fails for camera mi: free, cleanup, return
SpawnFail ==
  /\ pc = "spawn"
  /\ \E e \in Errnos : ret' = e
  /\ pool_freed' = TRUE
  /\ pc' = "cleanup"
  /\ UNCHANGED << cam_count, frame_queues, timestamp, mi, mj, current_frames,
                  complete_sets, full_set, max_timestamp, all_equal,
                  anchor_sent, anchor_reached, stop_sent, stop_reached,
                  emitted, recycled, nq_by, dq_by, prime_ok >>
  /\ UNCHANGED workerVars
  /\ UNCHANGED queueVars

\* lines 154-164: the start anchor is broadcast, its outcome is not looked at
Anchor ==
  /\ pc = "anchor"
  /\ \E R \in SUBSET Cams : anchor_reached' = R
  /\ anchor_sent' = TRUE
  /\ pc' = LoopTop(complete_sets)
  /\ mi' = 0
  /\ full_set' = TRUE
  /\ UNCHANGED << ret, cam_count, frame_queues, timestamp, mj, current_frames,
                  complete_sets, max_timestamp, all_equal, pool_freed,
                  stop_sent, stop_reached,
                  emitted, recycled, nq_by, dq_by, prime_ok >>
  /\ UNCHANGED workerVars
  /\ UNCHANGED queueVars

\* lines 167-187: slot mi of the fill loop; after the last slot either
\* `continue` (no full set) or the max loop
Fill ==
  /\ pc = "fill"
  /\ LET q == frame_queues[FilledQ(mi)]
         skip == current_frames[mi] # NULL
         got == IF skip THEN current_frames[mi] ELSE lf_queue_dq_val(q)
         cur == [current_frames EXCEPT ![mi] = got]
         fs == full_set /\ got # NULL
         last == (mi + 1 >= cam_count)
     IN  /\ current_frames' = cur
         /\ frame_queues' = IF skip THEN frame_queues
                            ELSE [frame_queues EXCEPT ![FilledQ(mi)] = lf_queue_dq(q)]
         /\ dq_by' = IF skip THEN dq_by
                     ELSE [dq_by EXCEPT ![FilledQ(mi)] = @ \cup {MainThread}]
         /\ mi' = IF last THEN 0 ELSE mi + 1
         /\ full_set' = IF last THEN TRUE ELSE fs
         /\ pc' = IF ~last THEN "fill"
                  ELSE IF ~fs THEN LoopTop(complete_sets)
                  ELSE "max"
  /\ UNCHANGED << ret, cam_count, timestamp, mj, complete_sets, max_timestamp,
                  all_equal, pool_freed, anchor_sent, anchor_reached,
                  stop_sent, stop_reached, emitted, recycled, nq_by, prime_ok >>
  /\ UNCHANGED workerVars
  /\ UNCHANGED queueVars

\* lines 182-187: find the max timestamp
FindMax ==
  /\ pc = "max"
  /\ max_timestamp' = FindMaxTimestamp
  /\ all_equal' = TRUE
  /\ mi' = 0
  /\ pc' = "align"
  /\ UNCHANGED << ret, cam_count, frame_queues, timestamp, mj, current_frames,
                  complete_sets, full_set, pool_freed, anchor_sent, anchor_reached,
                  stop_sent, stop_reached, emitted, recycled, nq_by, dq_by, prime_ok >>
  /\ UNCHANGED workerVars
  /\ UNCHANGED queueVars

\* lines 190-200: slot mi of the matching loop; after the last slot `continue`
\* when a slot was cleared
Align ==
  /\ pc = "align"
  /\ LET h == current_frames[mi]
         differs == TimestampDiffers(h, max_timestamp)
         ae == all_equal /\ ~differs
         last == (mi + 1 >= cam_count)
     IN  /\ frame_queues' = IF differs
                            THEN [frame_queues EXCEPT ![RecycleQueue(mi)] =
                                    lf_queue_nq(@, InitCapacity, h)]
                            ELSE frame_queues
         /\ current_frames' = IF differs THEN SlotAfterRecycle(current_frames, mi)
                              ELSE current_frames
         /\ recycled' = IF differs THEN [recycled EXCEPT ![mi] = Append(@, timestamp[h])]
                        ELSE recycled
         /\ nq_by' = IF differs THEN [nq_by EXCEPT ![RecycleQueue(mi)] = @ \cup {MainThread}]
                     ELSE nq_by
         /\ mi' = IF last THEN 0 ELSE mi + 1
         /\ all_equal' = IF last THEN TRUE ELSE ae
         /\ max_timestamp' = IF last /\ ~ae THEN 0 ELSE max_timestamp
         /\ pc' = IF ~last THEN "align"
                  ELSE IF ~ae THEN LoopTop(complete_sets)
                  ELSE "emit"
  /\ UNCHANGED << ret, cam_count, timestamp, mj, complete_sets, full_set,
                  pool_freed, anchor_sent, anchor_reached, stop_sent, stop_reached,
                  emitted, dq_by, prime_ok >>
  /\ UNCHANGED workerVars
  /\ UNCHANGED queueVars

\* lines 202-209: "Received full frame set"
Emit ==
  /\ pc = "emit"
  /\ emitted' = Append(emitted, max_timestamp)
  /\ mi' = 0
  /\ pc' = "release"
  /\ UNCHANGED << ret, cam_count, frame_queues, timestamp, mj, current_frames,
                  complete_sets, full_set, max_timestamp, all_equal, pool_freed,
                  anchor_sent, anchor_reached, stop_sent, stop_reached,
                  recycled, nq_by, dq_by, prime_ok >>
  /\ UNCHANGED workerVars
  /\ UNCHANGED queueVars

\* lines 211-217: slot mi of the release loop; complete_sets++ after the last
Release ==
  /\ pc = "release"
  /\ LET h == current_frames[mi]
         last == (mi + 1 >= cam_count)
     IN  /\ frame_queues' = [frame_queues EXCEPT ![ReleaseQueue(mi)] =
                               lf_queue_nq(@, InitCapacity, h)]
         /\ current_frames' = SlotAfterRelease(current_frames, mi)
         /\ nq_by' = [nq_by EXCEPT ![ReleaseQueue(mi)] = @ \cup {MainThread}]
         /\ mi' = IF last THEN 0 ELSE mi + 1
         /\ complete_sets' = IF last THEN complete_sets + 1 ELSE complete_sets
         /\ max_timestamp' = IF last THEN 0 ELSE max_timestamp
         /\ pc' = IF last THEN LoopTop(complete_sets + 1) ELSE "release"
  /\ UNCHANGED << ret, cam_count, timestamp, mj, full_set, all_equal,
                  pool_freed, anchor_sent, anchor_reached, stop_sent, stop_reached,
                  emitted, recycled, dq_by, prime_ok >>
  /\ UNCHANGED workerVars
  /\ UNCHANGED queueVars

\* lines 220-221: STOP is broadcast, its outcome is not looked at
Stop ==
  /\ pc = "stop"
  /\ \E R \in SUBSET Cams : stop_reached' = R
  /\ stop_sent' = TRUE
  /\ mi' = 0
  /\ pc' = AfterStop
  /\ UNCHANGED << ret, cam_count, frame_queues, timestamp, mj, current_frames,
                  complete_sets, full_set, max_timestamp, all_equal, pool_freed,
                  anchor_sent, anchor_reached,
                  emitted, recycled, nq_by, dq_by, prime_ok >>
  /\ UNCHANGED workerVars
  /\ UNCHANGED queueVars

\* lines 223-225: pthread_join(threads[mi]) returns once worker mi has ended
Join ==
  /\ pc = "join"
  /\ wpc[mi] = "stopped"
  /\ mi' = IF mi + 1 >= cam_count THEN 0 ELSE mi + 1
  /\ pc' = IF mi + 1 >= cam_count THEN "free" ELSE "join"
  /\ UNCHANGED << ret, cam_count, frame_queues, timestamp, mj, current_frames,
                  complete_sets, full_set, max_timestamp, all_equal, pool_freed,
                  anchor_sent, anchor_reached, stop_sent, stop_reached,
                  emitted, recycled, nq_by, dq_by, prime_ok >>
  /\ UNCHANGED workerVars
  /\ UNCHANGED queueVars

\* line 227: free(frame_bufs)
Free ==
  /\ pc = "free"
  /\ pool_freed' = TRUE
  /\ pc' = "cleanup"
  /\ UNCHANGED << ret, cam_count, frame_queues, timestamp, mi, mj, current_frames,
                  complete_sets, full_set, max_timestamp, all_equal,
                  anchor_sent, anchor_reached, stop_sent, stop_reached,
                  emitted, recycled, nq_by, dq_by, prime_ok >>
  /\ UNCHANGED workerVars
  /\ UNCHANGED queueVars

\* lines 149-150 and 228-229: cleanup_logging(); return ret; the process ends
Return ==
  /\ pc = "cleanup"
  /\ pc' = "exited"
  /\ UNCHANGED << ret, cam_count, frame_queues, timestamp, mi, mj, current_frames,
                  complete_sets, full_set, max_timestamp, all_equal, pool_freed,
                  anchor_sent, anchor_reached, stop_sent, stop_reached,
                  emitted, recycled, nq_by, dq_by, prime_ok >>
  /\ UNCHANGED workerVars
  /\ UNCHANGED queueVars

(* ------------------------- stream_mgr (worker) -------------------------- *)
\* Ingest worker of camera i, section 4.D: receive a frame, take an empty
\* buffer (spinning while there is none), decode into it, stamp it, publish
\* it; leave when the stream is closed by STOP or after a hard failure.

Alive == pc # "exited"

\* where the loop goes after a frame has been handled: step (f)
AfterFrame(i, ts) == IF ts = 0 \/ i \in stop_reached THEN "drain" ELSE "recv"

\* (a) one encoded frame with its capture timestamp arrives
WRecvFrame(i) ==
  /\ Alive
  /\ wpc[i] = "recv"
  /\ i \in anchor_reached
  /\ i \notin stop_reached
  /\ nrecv[i] < MaxFrames
  /\ \E ts \in wlast[i] .. MaxTick :
       /\ wts' = [wts EXCEPT ![i] = ts]
       /\ wlast' = [wlast EXCEPT ![i] = ts]
       /\ accepted' = [accepted EXCEPT ![i] = Append(@, ts)]
  /\ nrecv' = [nrecv EXCEPT ![i] = @ + 1]
  /\ wpc' = [wpc EXCEPT ![i] = "acquire"]
  /\ UNCHANGED << wbuf, published, frame_queues, timestamp, nq_by, dq_by >>
  /\ UNCHANGED mainState
  /\ UNCHANGED queueVars

\* (a) the camera closed the stream after STOP
WRecvStop(i) ==
  /\ Alive
  /\ wpc[i] = "recv"
  /\ i \in stop_reached
  /\ wpc' = [wpc EXCEPT ![i] = "drain"]
  /\ UNCHANGED << wbuf, wts, wlast, nrecv, published, accepted, frame_queues, timestamp,
                  nq_by, dq_by >>
  /\ UNCHANGED mainState
  /\ UNCHANGED queueVars

\* (a) hard network failure: the worker will publish a sentinel with timestamp 0
WRecvFail(i) ==
  /\ Alive
  /\ wpc[i] = "recv"
  /\ i \notin stop_reached
  /\ wts' = [wts EXCEPT ![i] = 0]
  /\ wpc' = [wpc EXCEPT ![i] = "acquire"]
  /\ UNCHANGED << wbuf, wlast, nrecv, published, accepted, frame_queues, timestamp,
                  nq_by, dq_by >>
  /\ UNCHANGED mainState
  /\ UNCHANGED queueVars

\* (b) empty_q[i].dequeue(); the worker spins while it returns nothing
WAcquire(i) ==
  /\ Alive
  /\ wpc[i] = "acquire"
  /\ lf_queue_dq_val(frame_queues[EmptyQ(i)]) # NULL
  /\ wbuf' = [wbuf EXCEPT ![i] = lf_queue_dq_val(frame_queues[EmptyQ(i)])]
  /\ frame_queues' = [frame_queues EXCEPT ![EmptyQ(i)] = lf_queue_dq(@)]
  /\ dq_by' = [dq_by EXCEPT ![EmptyQ(i)] = @ \cup {WorkerThread(i)}]
  /\ wpc' = [wpc EXCEPT ![i] = "decode"]
  /\ UNCHANGED << wts, wlast, nrecv, published, accepted, timestamp, nq_by >>
  /\ UNCHANGED mainState
  /\ UNCHANGED queueVars

\* (c)-(f) decode, write the timestamp, filled_q[i].enqueue()
WPublish(i) ==
  /\ Alive
  /\ wpc[i] = "decode"
  /\ timestamp' = [timestamp EXCEPT ![wbuf[i]] = wts[i]]
  /\ frame_queues' = [frame_queues EXCEPT ![FilledQ(i)] =
                        lf_queue_nq(@, InitCapacity, wbuf[i])]
  /\ nq_by' = [nq_by EXCEPT ![FilledQ(i)] = @ \cup {WorkerThread(i)}]
  /\ published' = [published EXCEPT ![i] = Append(@, wts[i])]
  /\ wbuf' = [wbuf EXCEPT ![i] = NULL]
  /\ wts' = [wts EXCEPT ![i] = 0]
  /\ wpc' = [wpc EXCEPT ![i] = AfterFrame(i, wts[i])]
  /\ UNCHANGED << wlast, nrecv, accepted, dq_by >>
  /\ UNCHANGED mainState
  /\ UNCHANGED queueVars

\* (c) decode failure on a frame: the buffer is recycled to empty_q[i]
WDecodeFail(i) ==
  /\ Alive
  /\ wpc[i] = "decode"
  /\ wts[i] # 0
  /\ frame_queues' = [frame_queues EXCEPT ![EmptyQ(i)] =
                        lf_queue_nq(@, InitCapacity, wbuf[i])]
  /\ nq_by' = [nq_by EXCEPT ![EmptyQ(i)] = @ \cup {WorkerThread(i)}]
  /\ wbuf' = [wbuf EXCEPT ![i] = NULL]
  /\ wts' = [wts EXCEPT ![i] = 0]
  /\ wpc' = [wpc EXCEPT ![i] = AfterFrame(i, wts[i])]
  /\ accepted' = [accepted EXCEPT ![i] = SubSeq(@, 1, Len(@) - 1)]
  /\ UNCHANGED << wlast, nrecv, published, timestamp, dq_by >>
  /\ UNCHANGED mainState
  /\ UNCHANGED queueVars

\* on exit a buffer still in flight goes back to empty_q[i]
WExit(i) ==
  /\ Alive
  /\ wpc[i] = "drain"
  /\ frame_queues' = IF wbuf[i] = NULL THEN frame_queues
                     ELSE [frame_queues EXCEPT ![EmptyQ(i)] =
                             lf_queue_nq(@, InitCapacity, wbuf[i])]
  /\ nq_by' = IF wbuf[i] = NULL THEN nq_by
              ELSE [nq_by EXCEPT ![EmptyQ(i)] = @ \cup {WorkerThread(i)}]
  /\ wbuf' = [wbuf EXCEPT ![i] = NULL]
  /\ wpc' = [wpc EXCEPT ![i] = "stopped"]
  /\ UNCHANGED << wts, wlast, nrecv, published, accepted, timestamp, dq_by >>
  /\ UNCHANGED mainState
  /\ UNCHANGED queueVars

\* (a) a camera on the grid sends the frame of its next tick: no tick is
\* skipped and none is repeated
GridRecv(i) ==
  /\ Alive
  /\ wpc[i] = "recv"
  /\ i \in anchor_reached
  /\ i \notin stop_reached
  /\ LET ts == IF nrecv[i] = 0 THEN wlast[i] ELSE wlast[i] + 1
     IN  /\ ts <= GridTicks
         /\ wts' = [wts EXCEPT ![i] = ts]
         /\ wlast' = [wlast EXCEPT ![i] = ts]
         /\ accepted' = [accepted EXCEPT ![i] = Append(@, ts)]
  /\ nrecv' = [nrecv EXCEPT ![i] = @ + 1]
  /\ wpc' = [wpc EXCEPT ![i] = "acquire"]
  /\ UNCHANGED << wbuf, published, frame_queues, timestamp, nq_by, dq_by >>
  /\ UNCHANGED mainState
  /\ UNCHANGED queueVars

\* the start anchor reaches every camera
GridAnchor == Anchor /\ anchor_reached' = Cams

\* the STOP message reaches every camera
GridStop == Stop /\ stop_reached' = Cams

(* --------------------------- specification ----------------------------- *)

Next ==
  \/ StartupFail
  \/ CountFail
  \/ StartupOk
  \/ Prime
  \/ SpawnOk
  \/ SpawnFail
  \/ Anchor
  \/ Fill
  \/ FindMax
  \/ Align
  \/ Emit
  \/ Release
  \/ Stop
  \/ Join
  \/ Free
  \/ Return
  \/ \E i \in Cams : WRecvFrame(i)
  \/ \E i \in Cams : WRecvStop(i)
  \/ \E i \in Cams : WRecvFail(i)
  \/ \E i \in Cams : WAcquire(i)
  \/ \E i \in Cams : WPublish(i)
  \/ \E i \in Cams : WDecodeFail(i)
  \/ \E i \in Cams : WExit(i)

Spec == Init /\ [][Next]_vars

\* The run in which nothing fails: startup succeeds, both broadcasts reach
\* every camera, every camera sends one frame per grid tick and every frame
\* decodes.  main() and each worker are threads of their own, each scheduled
\* again and again while it has a step to take.
MainGrid ==
  \/ StartupOk
  \/ Prime
  \/ SpawnOk
  \/ GridAnchor
  \/ Fill
  \/ FindMax
  \/ Align
  \/ Emit
  \/ Release
  \/ GridStop
  \/ Join
  \/ Free
  \/ Return

WorkerGrid(i) ==
  \/ GridRecv(i)
  \/ WRecvStop(i)
  \/ WAcquire(i)
  \/ WPublish(i)
  \/ WExit(i)

NextGrid ==
  \/ StartupOk
  \/ Prime
  \/ SpawnOk
  \/ GridAnchor
  \/ Fill
  \/ FindMax
  \/ Align
  \/ Emit
  \/ Release
  \/ GridStop
  \/ Join
  \/ Free
  \/ Return
  \/ \E i \in Cams : GridRecv(i)
  \/ \E i \in Cams : WRecvStop(i)
  \/ \E i \in Cams : WAcquire(i)
  \/ \E i \in Cams : WPublish(i)
  \/ \E i \in Cams : WExit(i)

SpecGrid ==
  /\ InitGrid
  /\ [][NextGrid]_vars
  /\ WF_vars(MainGrid)
  /\ \A i \in CamIds : WF_vars(WorkerGrid(i))

\* The same run with frames that may fail to decode: a worker then recycles
\* its buffer and goes on with the next frame.
NextLossy ==
  \/ StartupOk
  \/ Prime
  \/ SpawnOk
  \/ GridAnchor
  \/ Fill
  \/ FindMax
  \/ Align
  \/ Emit
  \/ Release
  \/ GridStop
  \/ Join
  \/ Free
  \/ Return
  \/ \E i \in Cams : GridRecv(i)
  \/ \E i \in Cams : WRecvStop(i)
  \/ \E i \in Cams : WAcquire(i)
  \/ \E i \in Cams : WPublish(i)
  \/ \E i \in Cams : WDecodeFail(i)
  \/ \E i \in Cams : WExit(i)

SpecLossy == InitGrid /\ [][NextLossy]_vars

(* --------------------- one queue, its two threads ---------------------- *)
\* The queue of section 4.A taken alone: a ring of InitCapacity slots, a head
\* index advanced only by the dequeuing thread and a tail index advanced only
\* by the enqueuing thread, both counted modulo twice the capacity.  A handle
\* is written to its slot before the tail is published, and read from its slot
\* before the head is published.  Every step is one access to shared memory.

systemVars == << pc, ret, cam_count, frame_queues, timestamp, mi, mj, current_frames,
                 complete_sets, full_set, max_timestamp, all_equal, pool_freed,
                 anchor_sent, anchor_reached, stop_sent, stop_reached,
                 wpc, wbuf, wts, wlast, nrecv, accepted,
                 published, emitted, recycled, nq_by, dq_by, prime_ok >>

RingMod == 2 * InitCapacity

\* variant: the full test is off by one
ring_full_OffByOne(h, t) == (t - h + RingMod) % RingMod = InitCapacity + 1

ring_full(h, t) == (t - h + RingMod) % RingMod = InitCapacity

ring_empty(h, t) == h = t

ring_slot(c) == c % InitCapacity

ring_next(c) == (c + 1) % RingMod

\* elements enqueued and not yet dequeued
Held == Len(q_enq) - Len(q_deq)

\* enqueue, first step: load head; return false when the ring is full
NqCheck ==
  /\ p_pc = "idle"
  /\ p_next <= MaxItems
  /\ IF ring_full(q_head, q_tail)
     THEN /\ nq_false_at' = nq_false_at \cup {Held}
          /\ UNCHANGED << p_pc, p_val, nq_true_at >>
     ELSE /\ nq_true_at' = nq_true_at \cup {Held}
          /\ p_pc' = "write"
          /\ p_val' = p_next
          /\ UNCHANGED nq_false_at
  /\ UNCHANGED << q_slots, q_head, q_tail, p_next, c_pc, c_val, q_enq, q_deq,
                  dq_none_at, dq_some_at >>
  /\ UNCHANGED systemVars

\* enqueue, second step: store the handle in the slot at tail
NqWrite ==
  /\ p_pc = "write"
  /\ q_slots' = [q_slots EXCEPT ![ring_slot(q_tail)] = p_val]
  /\ p_pc' = "publish"
  /\ UNCHANGED << q_head, q_tail, p_val, p_next, c_pc, c_val, q_enq, q_deq,
                  nq_false_at, nq_true_at, dq_none_at, dq_some_at >>
  /\ UNCHANGED systemVars

\* enqueue, third step: release-store the new tail; return true
NqPublish ==
  /\ p_pc = "publish"
  /\ q_tail' = ring_next(q_tail)
  /\ q_enq' = Append(q_enq, p_val)
  /\ p_next' = p_next + 1
  /\ p_val' = NULL
  /\ p_pc' = "idle"
  /\ UNCHANGED << q_slots, q_head, c_pc, c_val, q_deq,
                  nq_false_at, nq_true_at, dq_none_at, dq_some_at >>
  /\ UNCHANGED systemVars

\* dequeue, first step: acquire-load tail; return nothing when the ring is empty
DqCheck ==
  /\ c_pc = "idle"
  /\ IF ring_empty(q_head, q_tail)
     THEN /\ dq_none_at' = dq_none_at \cup {Held}
          /\ UNCHANGED << c_pc, dq_some_at >>
     ELSE /\ dq_some_at' = dq_some_at \cup {Held}
          /\ c_pc' = "read"
          /\ UNCHANGED dq_none_at
  /\ UNCHANGED << q_slots, q_head, q_tail, p_pc, p_val, p_next, c_val, q_enq, q_deq,
                  nq_false_at, nq_true_at >>
  /\ UNCHANGED systemVars

\* dequeue, second step: load the handle from the slot at head
DqRead ==
  /\ c_pc = "read"
  /\ c_val' = q_slots[ring_slot(q_head)]
  /\ c_pc' = "advance"
  /\ UNCHANGED << q_slots, q_head, q_tail, p_pc, p_val, p_next, q_enq, q_deq,
                  nq_false_at, nq_true_at, dq_none_at, dq_some_at >>
  /\ UNCHANGED systemVars

\* dequeue, third step: release-store the new head; return the handle
DqAdvance ==
  /\ c_pc = "advance"
  /\ q_head' = ring_next(q_head)
  /\ q_deq' = Append(q_deq, c_val)
  /\ c_val' = NULL
  /\ c_pc' = "idle"
  /\ UNCHANGED << q_slots, q_tail, p_pc, p_val, p_next, q_enq,
                  nq_false_at, nq_true_at, dq_none_at, dq_some_at >>
  /\ UNCHANGED systemVars

NextQ ==
  \/ NqCheck
  \/ NqWrite
  \/ NqPublish
  \/ DqCheck
  \/ DqRead
  \/ DqAdvance

SpecQ == Init /\ [][NextQ]_vars

(* ------------------------------ properties ----------------------------- *)

\* the pool exists and is primed: from the end of priming until free()
PoolLive == pc \in {"spawn", "anchor", "fill", "max", "align", "emit", "release",
                    "stop", "join", "free"}

InSyncLoop == pc \in {"fill", "max", "align", "emit", "release"}

Range(s) == {s[k] : k \in 1 .. Len(s)}

Occurrences(s, x) == Cardinality({k \in 1 .. Len(s) : s[k] = x})

NonDecreasing(s) == \A k \in 1 .. (Len(s) - 1) : s[k] <= s[k + 1]

StrictlyIncreasing(s) == \A k \in 1 .. (Len(s) - 1) : s[k] < s[k + 1]

HeldByWorker(i) == IF wbuf[i] # NULL THEN 1 ELSE 0

HeldBySync(i) == IF current_frames[i] # NULL THEN 1 ELSE 0

\* C1: pool conservation: from the end of priming until the pool is freed,
\* for every camera the buffers in its filled queue, in its empty queue, held
\* by its worker and held by the synchronizer add up to FRAME_BUFS_PER_THREAD.
C1_PoolConservation ==
  PoolLive =>
    \A i \in Cams :
      Len(frame_queues[FilledQ(i)]) + Len(frame_queues[EmptyQ(i)])
        + HeldByWorker(i) + HeldBySync(i) = FRAME_BUFS_PER_THREAD

\* a camera with one buffer at its worker and one in the synchronizer's slot,
\* after the synchronizer has already returned buffers on a mismatch
C1_Witness ==
  /\ PoolLive
  /\ \E i \in Cams : wbuf[i] # NULL /\ current_frames[i] # NULL
  /\ \E i \in Cams : recycled[i] # << >>

\* C2: alignment: whenever the synchronizer reaches the "Received full frame
\* set" step, every slot holds a buffer of its own camera and all of them carry
\* the timestamp that is logged, max_timestamp.
C2_AlignedSet ==
  pc = "emit" =>
    \A i \in Cams :
      /\ current_frames[i] # NULL
      /\ current_frames[i] \div FRAME_BUFS_PER_THREAD = i
      /\ timestamp[current_frames[i]] = max_timestamp

\* a set of two cameras is logged after an earlier mismatch
C2_Witness ==
  /\ pc = "emit"
  /\ cam_count = 2
  /\ max_timestamp > 0
  /\ \E i \in Cams : recycled[i] # << >>

\* timestamps that occur in the stream of every camera
Common == {t \in 0 .. MaxTick : \A i \in Cams : t \in Range(published[i])}

RECURSIVE SortedSeq(_)
SortedSeq(S) ==
  IF S = {} THEN << >>
  ELSE LET m == CHOOSE x \in S : \A y \in S : x <= y
       IN  << m >> \o SortedSeq(S \ {m})

\* timestamps of the frames of camera i the synchronizer has not let go of
Pending(i) ==
  {timestamp[h] : h \in Range(frame_queues[FilledQ(i)]) \cup ({current_frames[i]} \ {NULL})}

\* every stream has ended here: no worker is handling a frame, and the
\* synchronizer is in its fill loop with an empty slot it cannot fill
Quiescent ==
  /\ pc = "fill"
  /\ \A i \in Cams : wpc[i] \in {"recv", "drain", "stopped"}
  /\ \A i \in Cams : current_frames[i] = NULL => frame_queues[FilledQ(i)] = << >>
  /\ \E i \in Cams : current_frames[i] = NULL

AllNonDecreasing == \A i \in Cams : NonDecreasing(published[i])

AllStrictlyIncreasing == \A i \in Cams : StrictlyIncreasing(published[i])

\* every camera published at least one frame and none published a sentinel
RealStreams == \A i \in Cams : published[i] # << >> /\ 0 \notin Range(published[i])

C4_Original == (cam_count >= 2 /\ AllNonDecreasing) => StrictlyIncreasing(emitted)

\* C4 (amended): with non-decreasing streams the timestamps of successive sets
\* never decrease, and they strictly increase when no camera repeats a timestamp.
C4_Monotonic ==
  /\ AllNonDecreasing => NonDecreasing(emitted)
  /\ AllStrictlyIncreasing => StrictlyIncreasing(emitted)

C4_Witness ==
  /\ AllStrictlyIncreasing
  /\ cam_count = 2
  /\ Len(emitted) >= 2

Places(i, h) ==
    Occurrences(frame_queues[FilledQ(i)], h)
  + Occurrences(frame_queues[EmptyQ(i)], h)
  + (IF wbuf[i] = h THEN 1 ELSE 0)
  + (IF current_frames[i] = h THEN 1 ELSE 0)

BuffersOf(i) == (i * FRAME_BUFS_PER_THREAD) .. (i * FRAME_BUFS_PER_THREAD + FRAME_BUFS_PER_THREAD - 1)

\* C5: exclusive ownership: while the pool is live every buffer of camera i is at
\* exactly one place among worker i, filled queue i, synchronizer slot i and
\* empty queue i, and at none of the places of another camera.
C5_ExclusiveOwnership ==
  PoolLive =>
    \A i \in Cams :
      \A h \in Handles :
        Places(i, h) = (IF h \in BuffersOf(i) THEN 1 ELSE 0)

\* one buffer of a camera waits in its filled queue while the other is back in
\* its empty queue after a trip through the synchronizer
C5_Witness ==
  /\ PoolLive
  /\ \E i \in Cams :
       /\ Len(frame_queues[FilledQ(i)]) = 1
       /\ Len(frame_queues[EmptyQ(i)]) = 1
       /\ timestamp[Head(frame_queues[EmptyQ(i)])] > 0
       /\ Len(emitted) > 0

\* C8: SPSC discipline: the filled queue of camera i is enqueued only by worker
\* i and dequeued only by main; its empty queue is enqueued only by main and
\* dequeued only by worker i.
C8_SpscDiscipline ==
  \A i \in Cams :
    /\ nq_by[FilledQ(i)] \subseteq {WorkerThread(i)}
    /\ dq_by[FilledQ(i)] \subseteq {MainThread}
    /\ nq_by[EmptyQ(i)] \subseteq {MainThread}
    /\ dq_by[EmptyQ(i)] \subseteq {WorkerThread(i)}

\* C9: the pool is never freed while a spawned worker is still running.
C9_FreeAfterJoin ==
  pool_freed => \A i \in Cams : wpc[i] \in {"idle", "stopped"}

\* C10: a start anchor that did not reach every camera is fatal: the
\* synchronizer loop is not entered.
C10_AnchorFailureFatal ==
  (anchor_sent /\ anchor_reached # Cams) => ~InSyncLoop

\* C6: SPSC queue safety: with one enqueuing and one dequeuing thread, under
\* every interleaving of their steps the values dequeued so far are a prefix of
\* the values enqueued, in the same order.
C6_SpscFifo ==
  /\ Len(q_deq) <= Len(q_enq)
  /\ \A k \in 1 .. Len(q_deq) : q_deq[k] = q_enq[k]

\* the ring has wrapped around while both threads were in the middle of an operation
C6_Witness ==
  /\ Len(q_deq) >= FRAME_BUFS_PER_THREAD
  /\ p_pc = "publish"
  /\ c_pc = "advance"

\* C7: queue bounds: a queue initialised with capacity K = FRAME_BUFS_PER_THREAD
\* returns false from enqueue exactly when it holds K elements and nothing
\* from dequeue exactly when it holds none; so the K priming enqueues, which
\* no dequeue interrupts, all succeed, and a drained queue accepts again.
C7_QueueBounds ==
  /\ nq_false_at \subseteq {FRAME_BUFS_PER_THREAD}
  /\ FRAME_BUFS_PER_THREAD \notin nq_true_at
  /\ dq_none_at \subseteq {0}
  /\ 0 \notin dq_some_at
  /\ (p_pc = "idle" /\ Held < PrimeCount) => ~ring_full(q_head, q_tail)
  /\ (q_deq = << >> /\ Len(q_enq) < PrimeCount) => nq_false_at = {}

\* K enqueues were accepted, the next was refused, the queue was drained and
\* then accepted an enqueue again
C7_Witness ==
  /\ FRAME_BUFS_PER_THREAD \in nq_false_at
  /\ 0 \in dq_none_at
  /\ Len(q_deq) >= FRAME_BUFS_PER_THREAD
  /\ Len(q_enq) > Len(q_deq)
  /\ Len(q_enq) > FRAME_BUFS_PER_THREAD

\* the run ended the clean way: STOP was broadcast, the workers were joined
\* and the pool was freed at line 227
CleanStop == stop_sent /\ pool_freed

\* the spawn loop gave up: the pool was freed at line 148 and no STOP was sent
SpawnFailed == pool_freed /\ ~stop_sent

\* C11: exit code: main returns 0 only on a clean stop (so not when the
\* camera count is zero), and a failed thread spawn returns a negative code.
C11_ExitCode ==
  pc = "exited" =>
    /\ ret = 0 => CleanStop
    /\ SpawnFailed => ret < 0

\* every worker of the run has been created
AllSpawned == \A i \in Cams : wpc[i] # "idle"

\* every worker of the run has ended, which is when its pthread_join returns
AllEnded == \A i \in Cams : wpc[i] = "stopped"

\* the synchronizer has taken a frame out of some filled queue
SyncDequeued == \E i \in Cams : MainThread \in dq_by[FilledQ(i)]

\* C12: orchestration order on a run whose startup succeeded: the anchor is
\* broadcast once, after all workers are spawned and before the synchronizer
\* dequeues anything; STOP is broadcast once, after the last aligned set; the
\* joins follow STOP; the pool is freed only after all workers have ended.
C12_OrchestrationOrder ==
  /\ anchor_sent => AllSpawned /\ pc \notin {"start", "prime", "spawn", "anchor"}
  /\ pc = "anchor" => ~anchor_sent
  /\ SyncDequeued => anchor_sent
  /\ pc = "stop" => ~stop_sent
  /\ stop_sent => /\ anchor_sent
                  /\ Len(emitted) = TARGET_SETS
                  /\ pc \in {"join", "free", "cleanup", "exited"}
  /\ pc = "join" => stop_sent
  /\ (anchor_sent /\ pc \in {"free", "cleanup", "exited"}) => stop_sent /\ AllEnded
  /\ (anchor_sent /\ pool_freed) => AllEnded

\* a two-camera run that went through STOP, both joins and the free
C12_Witness ==
  /\ pc = "exited"
  /\ cam_count = 2
  /\ CleanStop
  /\ Len(emitted) = TARGET_SETS

\* main has left the while loop of line 164
LoopLeft == pc \in {"stop", "join", "free", "cleanup", "exited"} /\ anchor_sent

\* C13: synchronizer termination: never more than the target count of sets is
\* emitted; when the loop is left exactly the target count has been emitted
\* and every slot current[i] is empty; STOP is broadcast next.
C13_SyncTermination ==
  /\ Len(emitted) <= TARGET_SETS
  /\ Len(emitted) = complete_sets + (IF pc = "release" THEN 1 ELSE 0)
  /\ LoopLeft => /\ Len(emitted) = TARGET_SETS
                 /\ \A i \in CamIds : current_frames[i] = NULL
  /\ (LoopLeft /\ pc # "stop") => stop_sent
  /\ InSyncLoop => complete_sets < TARGET_SETS

\* the loop has just been left after the last release, and STOP is not sent yet
C13_Witness ==
  /\ pc = "stop"
  /\ cam_count = 2
  /\ Len(emitted) = TARGET_SETS
  /\ \E i \in Cams : recycled[i] # << >>

\* consecutive emitted sets are at most 1 + GridSkew ticks apart, and so is
\* the first one from the grid's first tick
GridSpacing ==
  /\ emitted # << >> => emitted[1] <= 1 + GridSkew
  /\ \A k \in 1 .. (Len(emitted) - 1) :
       emitted[k] < emitted[k + 1] /\ emitted[k + 1] - emitted[k] <= 1 + GridSkew

\* the synchronizer has emitted all the sets it counts to
GridCaughtUp == Len(emitted) = TARGET_SETS

\* C14: progress: with all cameras sending every tick of one grid and lagging
\* each other by at most GridSkew ticks, under fair scheduling the emitted sets
\* are never more than 1 + GridSkew ticks apart, and the synchronizer does not
\* go on recycling without emitting: it emits set after set up to its target
\* count.
C14_Progress == [](GridSpacing) /\ <>(GridCaughtUp)

\* two cameras, the second lagging the first: a frame was recycled and a set
\* was emitted after it
C14_Witness ==
  /\ cam_count = 2
  /\ \E i \in Cams : recycled[i] # << >>
  /\ emitted # << >>
  /\ published[0][1] # published[1][1]

\* C15: clean shutdown: once the target count is reached and STOP has been
\* broadcast (and has reached every camera), the shutdown goes on until the
\* process has terminated: while main() has not returned, main() or some
\* worker has a step to take.
C15_CleanShutdown == stop_sent => (pc = "exited" \/ ENABLED NextGrid)

\* C16: failed camera: a sentinel frame (timestamp 0) is skipped by the
\* synchronizer, so no emitted set is made of sentinels, and the synchronizer
\* leaves its loop only with the target count reached.
C16_SentinelSkipped ==
  /\ 0 \notin Range(emitted)
  /\ LoopLeft => complete_sets = TARGET_SETS

\* the frames worker i has published, the sentinel of a hard failure left out
RealPublished(i) == SelectSeq(published[i], LAMBDA t : t # 0)

\* the frame worker i has received and not yet published
InHand(i) == IF wpc[i] \in {"acquire", "decode"} /\ wts[i] # 0 THEN << wts[i] >> ELSE << >>

\* worker i found empty_q[i] empty and waits with its frame
Waiting(i) == wpc[i] = "acquire" /\ frame_queues[EmptyQ(i)] = << >>

\* C17 as stated: every frame a worker received is published exactly once or
\* is the one it has in hand: the counts agree.
C17_Original ==
  \A i \in Cams : wpc[i] # "stopped" => Len(RealPublished(i)) + Len(InHand(i)) = nrecv[i]

\* C17: backpressure without loss: a worker that finds empty_q[i] empty keeps
\* its frame and waits; when it enqueues into filled_q[i] the queue is not
\* full; the frames it has published, followed by the one in hand, are exactly
\* the frames it received and could decode, in capture order.
C17_Backpressure ==
  \A i \in Cams :
    /\ wpc[i] = "decode" => lf_queue_nq_ok(frame_queues[FilledQ(i)], InitCapacity)
    /\ Len(frame_queues[FilledQ(i)]) <= InitCapacity
    /\ wpc[i] # "stopped" => RealPublished(i) \o InHand(i) = accepted[i]
    /\ Len(accepted[i]) <= nrecv[i]

\* a worker is waiting with a frame while all buffers of its camera are in
\* the filled queue or held by the synchronizer
C17_Witness ==
  \E i \in Cams :
    /\ Waiting(i)
    /\ wts[i] # 0
    /\ Len(RealPublished(i)) >= FRAME_BUFS_PER_THREAD
    /\ accepted[i] # << >>

\* the step taken is main()'s pass over slot mi of the matching loop
AlignStep == pc = "align" /\ << mi, pc >>' # << mi, pc >>

\* what the matching loop does with slot mi
AlignFrame ==
  LET h == current_frames[mi]
  IN  /\ h # NULL
      /\ timestamp[h] <= max_timestamp
      /\ timestamp[h] < max_timestamp =>
           /\ frame_queues' = [frame_queues EXCEPT ![EmptyQ(mi)] = Append(@, h)]
           /\ current_frames' = [current_frames EXCEPT ![mi] = NULL]
      /\ timestamp[h] = max_timestamp =>
           /\ frame_queues' = frame_queues
           /\ current_frames' = current_frames

\* a filled slot keeps its buffer, and its camera's filled queue is not
\* dequeued, until the slot is cleared by a recycle or by the release that
\* follows an emission
SlotKept ==
  \A i \in Cams :
    current_frames[i] # NULL =>
      /\ Len(frame_queues'[FilledQ(i)]) >= Len(frame_queues[FilledQ(i)])
      /\ current_frames'[i] # current_frames[i] =>
           /\ current_frames'[i] = NULL
           /\ i = mi
           /\ \/ pc = "align" /\ timestamp[current_frames[i]] < max_timestamp
              \/ pc = "release"

\* the queues of camera i hold buffers of camera i only
OwnQueues ==
  \A i \in Cams :
    /\ Range(frame_queues[FilledQ(i)]) \subseteq BuffersOf(i)
    /\ Range(frame_queues[EmptyQ(i)]) \subseteq BuffersOf(i)

SyncReturns ==
  \/ pc = "align" /\ TimestampDiffers(current_frames[mi], max_timestamp)
  \/ pc = "release"

\* C19: every enqueue the synchronizer makes into empty_q[i] finds fewer than
\* K elements there, so it succeeds although its result is ignored.
C19_ReturnNeverFull ==
  SyncReturns =>
    /\ current_frames[mi] # NULL
    /\ lf_queue_nq_ok(frame_queues[EmptyQ(mi)], InitCapacity)
    /\ Len(frame_queues[EmptyQ(mi)]) < FRAME_BUFS_PER_THREAD

\* the synchronizer is about to return a buffer to an empty queue that holds
\* all the other buffers of the camera
C19_Witness ==
  /\ SyncReturns
  /\ Len(frame_queues[EmptyQ(mi)]) = FRAME_BUFS_PER_THREAD - 1
  /\ recycled[mi] # << >>

\* node indices of camera i's queue in a partition when the queue uses its
\* FRAME_BUFS_PER_THREAD frame nodes and one dummy node, from the offset of
\* line 109
NodeRegion(i) == PartitionOffset(i) .. (PartitionOffset(i) + FRAME_BUFS_PER_THREAD)

\* nodes in each partition array (line 105)
PartitionSize == cam_count * FRAME_BUFS_PER_THREAD + cam_count

\* C20: the node regions handed to the queues of distinct cameras are
\* pairwise disjoint (the filled and the empty partition use the same
\* offsets) and lie inside the partition array.
C20_DisjointRegions ==
  pc \notin {"start", "exited"} =>
    /\ \A i \in Cams : NodeRegion(i) \subseteq 0 .. (PartitionSize - 1)
    /\ \A i, j \in Cams : i # j => NodeRegion(i) \cap NodeRegion(j) = {}

====
